---- MODULE Spec2Model ----
(***************************************************************************)
(* Model of songlink_api.SongLink (src/songlink_api/__init__.py): the      *)
(* client's construction, the connection table with its cooldown marks,    *)
(* the cached GET of __make_request and the classification of the answer.  *)
(***************************************************************************)
EXTENDS Integers, Sequences, FiniteSets, TLC

(* ------------------------------------------------------------------ *)
(* Bounds of the model                                                 *)
(* ------------------------------------------------------------------ *)
MaxCalls == 2          \* invocations of __make_request in one behaviour
MaxInFlight == 2       \* invocations running concurrently
MaxTime == 1200        \* the clock stops advancing here (seconds)
TickSeconds == 500     \* granularity of the clock (seconds)

(* ------------------------------------------------------------------ *)
(* Program constants                                                   *)
(* ------------------------------------------------------------------ *)
ExpireAfter == 900                 \* FileBackend(expire_after=900)
AllowedCodes == {200}              \* FileBackend(allowed_codes=(200,))
IgnoredParameters == {"key"}       \* FileBackend(ignored_parameters=["key"])

(* Python's None, as a dictionary key, an argument or a result of dict.get *)
None == "None"
(* an Optional[datetime]: the empty set is None, {t} is the datetime t     *)
NoTime == {}
At(t) == {t}

(* ------------------------------------------------------------------ *)
(* Inputs                                                              *)
(* ------------------------------------------------------------------ *)
ClientIds == {1, 2}
CallIds == 1..MaxCalls
ApiKeys == {None, "k1", "k2"}
Timeouts == {500, 1000}
ProxyArgs ==
    { [t |-> "none"],
      [t |-> "str", s |-> "p1"],
      [t |-> "list", l |-> << >>],
      [t |-> "list", l |-> <<"p1">>],
      [t |-> "list", l |-> <<"p1", "p2">>] }
Urls == {"u1"}
Ids == {"i1"}
Countries == {"de"}
Flags == BOOLEAN
Statuses == {200, 400, 429}

VARIABLES clients, calls, cache, backend, types, now

vars == <<clients, calls, cache, backend, types, now>>

(* ------------------------------------------------------------------ *)
(* Dictionaries                                                        *)
(* ------------------------------------------------------------------ *)
EmptyDict == << >>
(* dict.get(k, default) *)
Get(d, k, default) == IF k \in DOMAIN d THEN d[k] ELSE default
(* {**a, **b} *)
Merge(a, b) ==
    [k \in DOMAIN a \cup DOMAIN b |-> IF k \in DOMAIN b THEN b[k] ELSE a[k]]
(* {k: v for k, v in params.items() if v is not None} *)
NonNull(params) ==
    [k \in {x \in DOMAIN params : params[x] # None} |-> params[k]]
(* d[k] = v on a dictionary that may not yet hold k *)
Put(d, k, v) == [x \in DOMAIN d \cup {k} |-> IF x = k THEN v ELSE d[x]]

(* ------------------------------------------------------------------ *)
(* SongLink.__init__                                                   *)
(* ------------------------------------------------------------------ *)
NoArgs == [proxy |-> [t |-> "none"], always_use_proxy |-> FALSE]
(* args: the proxy and always_use_proxy arguments the constructor was given *)
NewClient ==
    [state |-> "new", api_key |-> None, api_timeout |-> 0,
     connections |-> EmptyDict, args |-> NoArgs]

(* proxy if isinstance(proxy, list) else [proxy]; nothing when proxy is None *)
ProxyList(proxy) ==
    IF proxy.t = "none" THEN << >>
    ELSE IF proxy.t = "list" THEN proxy.l
    ELSE <<proxy.s>>

(* the direct connection added whatever always_use_proxy says *)
InitialConnectionsAlwaysDirect(proxy, always_use_proxy) ==
    LET l == ProxyList(proxy)
    IN [e \in {l[k] : k \in 1..Len(l)} \cup {None} |-> NoTime]

(* the connection table of lines 65-70: every key maps to None *)
InitialConnections(proxy, always_use_proxy) ==
    LET l == ProxyList(proxy)
        keys == {l[k] : k \in 1..Len(l)}
                  \cup (IF always_use_proxy THEN {} ELSE {None})
    IN [e \in keys |-> NoTime]

Construct(c, api_key, api_timeout, proxy, always_use_proxy) ==
    /\ clients[c].state = "new"
    /\ \A d \in ClientIds : d < c => clients[d].state # "new"
    /\ LET conns == InitialConnections(proxy, always_use_proxy)
           args == [proxy |-> proxy, always_use_proxy |-> always_use_proxy]
       IN clients' = [clients EXCEPT ![c] =
              IF DOMAIN conns = {}
              THEN [NewClient EXCEPT !.state = "failed", !.args = args]
              ELSE [state |-> "ready", api_key |-> api_key,
                    api_timeout |-> api_timeout, connections |-> conns,
                    args |-> args]]
    /\ UNCHANGED <<calls, cache, backend, types, now>>

(* ------------------------------------------------------------------ *)
(* Upstream answers                                                    *)
(* ------------------------------------------------------------------ *)
(* the values of the enumerations of songlink_api.types *)
APIProvider == {"spotify", "itunes"}
PlatformName == {"spotify", "appleMusic"}

(* JSON values the code tests against an enumeration keep their JSON type *)
JStr(s) == [str |-> s]
JList(l) == [list |-> l]
(* songlink_api.types is not part of the source tree. Its enumerations are the
   closed sets of recognized names; either they are string-valued, and a member
   is equal to the string that is its value, or they are plain Enum classes,
   and a member is equal to itself only. *)
Types == { [enum |-> "str"], [enum |-> "plain"] }

(* a member of an enumeration, as the values it is compared with see it *)
Member(m) == IF types.enum = "str" THEN JStr(m) ELSE [member |-> m]

(* x in list(Enum): equality of x with one of the members *)
InEnum(x, enum) == x \in {Member(m) : m \in enum}

Entity(id, provider, platforms) ==
    [id |-> id, apiProvider |-> JStr(provider), platforms |-> JList(platforms)]
Link(name, id) == [name |-> name, entityUniqueId |-> id]

(* success-shaped bodies; the two maps are kept in the order of the JSON text *)
SuccessBodies ==
    { [entityUniqueId |-> "SPOTIFY_SONG::1", userCountry |-> "US",
       pageUrl |-> "page",
       entitiesByUniqueId |->
           << Entity("SPOTIFY_SONG::1", "spotify", <<"spotify", "myspace">>),
              Entity("X_SONG::1", "unknown_provider", <<"spotify">>) >>,
       linksByPlatform |->
           << Link("spotify", "SPOTIFY_SONG::1"), Link("myspace", "X_SONG::1") >>],
      [entityUniqueId |-> "ITUNES_SONG::2", pageUrl |-> "page",
       entitiesByUniqueId |->
           << Entity("ITUNES_SONG::2", "itunes", <<"appleMusic">>) >>,
       linksByPlatform |-> << Link("appleMusic", "ITUNES_SONG::2") >>] }

ErrorBodies ==
    { EmptyDict,
      [code |-> "too_many_requests"],
      [code |-> "could_not_fetch_entity_data"],
      [code |-> "could_not_resolve_entity"],
      [statusCode |-> "500"] }

(* the text of a response body: not JSON, a JSON array, or a JSON object *)
Bodies ==
    { [json |-> "invalid"], [json |-> "array", len |-> 0],
      [json |-> "array", len |-> 1] }
    \cup { [json |-> "object", obj |-> o] : o \in SuccessBodies \cup ErrorBodies }

Responses == [status : Statuses, body : Bodies]
NoResponse == [status |-> 0, body |-> [json |-> "none"]]

(* lines 124-129: response.json(), and {} when it raises *)
Json(body) ==
    IF body.json = "object" THEN [kind |-> "dict", d |-> body.obj]
    ELSE IF body.json = "array" THEN [kind |-> "list", len |-> body.len]
    ELSE [kind |-> "dict", d |-> EmptyDict]

(* Python's truth value of the parsed body *)
Truthy(data) ==
    IF data.kind = "dict" THEN DOMAIN data.d # {} ELSE data.len > 0

(* lines 159-163: the condition tests the whole list against the enumeration *)
EntityPlatforms(entity) ==
    LET Keep(platform_name) == InEnum(entity.platforms, PlatformName)
        kept == SelectSeq(entity.platforms.list, Keep)
    IN [k \in 1..Len(kept) |-> kept[k]]

(* the condition of line 166 left out *)
EntitiesByUniqueIdUnfiltered(entities) ==
    [k \in 1..Len(entities) |->
        [id |-> entities[k].id, platforms |-> EntityPlatforms(entities[k]),
         api_provider |-> entities[k].apiProvider.str]]

(* lines 149-167 *)
EntitiesByUniqueId(entities) ==
    LET Keep(entity) == InEnum(entity.apiProvider, APIProvider)
        F(entity) == [id |-> entity.id, platforms |-> EntityPlatforms(entity),
                      api_provider |-> entity.apiProvider.str]
        kept == SelectSeq(entities, Keep)
    IN [k \in 1..Len(kept) |-> F(kept[k])]

(* the condition of line 178 left out *)
LinksByPlatformUnfiltered(links) ==
    [k \in 1..Len(links) |->
        [name |-> links[k].name, entity_unique_id |-> links[k].entityUniqueId]]

(* lines 168-179 *)
LinksByPlatform(links) ==
    LET Keep(platform) == InEnum(JStr(platform.name), PlatformName)
        F(platform) == [name |-> platform.name,
                        entity_unique_id |-> platform.entityUniqueId]
        kept == SelectSeq(links, Keep)
    IN [k \in 1..Len(kept) |-> F(kept[k])]

TooManyRequests == [kind |-> "TooManyRequests"]
EntityNotFound == [kind |-> "EntityNotFound"]
APIException(status_code, message) ==
    [kind |-> "APIException", status_code |-> status_code, message |-> message]
(* an exception the code does not raise itself: .get or .values() on a value
   that has no such attribute *)
AttributeError == [kind |-> "AttributeError"]
(* random.choice on an empty list *)
IndexError == [kind |-> "IndexError"]
NoOutcome == [kind |-> "none"]

(* the sent userCountry preferred to the body's *)
APIResponseParamFirst(data, params) ==
    IF data.kind # "dict" THEN AttributeError
    ELSE IF "entitiesByUniqueId" \notin DOMAIN data.d THEN AttributeError
    ELSE IF "linksByPlatform" \notin DOMAIN data.d THEN AttributeError
    ELSE [kind |-> "APIResponse",
          entity_unique_id |-> Get(data.d, "entityUniqueId", None),
          user_country |->
              Get(params, "userCountry", Get(data.d, "userCountry", "US")),
          page_url |-> Get(data.d, "pageUrl", None),
          entities_by_unique_id |->
              EntitiesByUniqueId(data.d["entitiesByUniqueId"]),
          links_by_platform |-> LinksByPlatform(data.d["linksByPlatform"])]

(* lines 145-180 *)
APIResponse(data, params) ==
    IF data.kind # "dict" THEN AttributeError
    ELSE IF "entitiesByUniqueId" \notin DOMAIN data.d THEN AttributeError
    ELSE IF "linksByPlatform" \notin DOMAIN data.d THEN AttributeError
    ELSE [kind |-> "APIResponse",
          entity_unique_id |-> Get(data.d, "entityUniqueId", None),
          user_country |->
              Get(data.d, "userCountry", Get(params, "userCountry", "US")),
          page_url |-> Get(data.d, "pageUrl", None),
          entities_by_unique_id |->
              EntitiesByUniqueId(data.d["entitiesByUniqueId"]),
          links_by_platform |-> LinksByPlatform(data.d["linksByPlatform"])]

(* the branch of lines 140-141 left out *)
ErrorOfWithoutEntityNotFound(status, data) ==
    IF status # 200 \/ ~Truthy(data)
    THEN IF data.kind # "dict" THEN AttributeError
         ELSE LET reason == Get(data.d, "code", None)
              IN IF reason = "too_many_requests" THEN TooManyRequests
                 ELSE APIException(status, reason)
    ELSE NoOutcome

(* lines 131-143: the error raised for the answer, or "none" on the success path *)
ErrorOf(status, data) ==
    IF status # 200 \/ ~Truthy(data)
    THEN IF data.kind # "dict" THEN AttributeError
         ELSE LET reason == Get(data.d, "code", None)
              IN IF reason = "too_many_requests" THEN TooManyRequests
                 ELSE IF reason = "could_not_fetch_entity_data" THEN EntityNotFound
                 ELSE APIException(status, reason)
    ELSE NoOutcome

(* lines 124-180: what __make_request raises or returns for a response *)
Outcome(response, params) ==
    LET data == Json(response.body)
        error == ErrorOf(response.status, data)
    IN IF error # NoOutcome THEN error ELSE APIResponse(data, params)

(* ------------------------------------------------------------------ *)
(* SongLink.__make_request                                             *)
(* ------------------------------------------------------------------ *)
(* the value of a call's connection before random.choice has drawn one *)
NoConnection == "-"

(* started: the clock when the call began; prior: the calls that had ended by
   then; requests: the GETs the call sent upstream *)
IdleCall ==
    [pc |-> "idle", client |-> 0, params |-> EmptyDict,
     connection |-> NoConnection, started |-> 0, prior |-> {},
     response |-> NoResponse,
     from_cache |-> FALSE, requests |-> 0, outcome |-> NoOutcome]

Ended == {i \in CallIds : calls[i].pc = "done"}
InFlight == {i \in CallIds : calls[i].pc \notin {"idle", "done"}}

(* the test of line 96 on an empty table only *)
AllMarkedNever(connections) == DOMAIN connections = {}

(* line 96: every connection carries a timestamp *)
AllMarked(connections) ==
    \A e \in DOMAIN connections : connections[e] # NoTime

(* the filter of lines 99-101 left out *)
CandidatesUnfiltered(connections) == DOMAIN connections

(* lines 99-101: the connections random.choice draws from *)
Candidates(connections) ==
    {e \in DOMAIN connections : connections[e] = NoTime}

(* lines 114-121: the query parameters of the GET *)
RequestParams(params, api_key) ==
    Merge(NonNull(params),
          IF api_key # None THEN [key |-> api_key] ELSE EmptyDict)

(* lines 37-43: the default cache backend, built once and shared by every
   client. The cache library is not part of the source tree: either it takes
   the keyword ignored_parameters as the parameters to leave out of the cache
   key, or it passes the keyword over as one it does not know and leaves no
   parameter out. *)
FileBackend ==
    { [ignored_params |-> IgnoredParameters], [ignored_params |-> {}] }

(* the cache's key of a request: the method and the parameters that the
   backend does not leave out *)
CacheKey(method, request_params) ==
    [params |-> [k \in DOMAIN request_params \ backend.ignored_params
                    |-> request_params[k]],
     method |-> method]

(* an entry is served until expire_after seconds after it was stored *)
Fresh(entry) == now <= entry.created + ExpireAfter

(* lines 96-101: up to the first await *)
MakeRequest(i, c, params) ==
    /\ calls[i].pc = "idle"
    /\ \A j \in CallIds : j < i => calls[j].pc # "idle"
    /\ Cardinality(InFlight) < MaxInFlight
    /\ clients[c].state = "ready"
    /\ LET connections == clients[c].connections
           call == [IdleCall EXCEPT !.client = c, !.params = params,
                                    !.started = now,
                                    !.prior = Ended]
       IN IF AllMarked(connections)
          THEN calls' = [calls EXCEPT ![i] =
                   [call EXCEPT !.pc = "done", !.outcome = TooManyRequests]]
          ELSE IF Candidates(connections) = {}
          THEN calls' = [calls EXCEPT ![i] =
                   [call EXCEPT !.pc = "done", !.outcome = IndexError]]
          ELSE \E connection \in Candidates(connections) :
                   calls' = [calls EXCEPT ![i] =
                       [call EXCEPT !.pc = "session",
                                    !.connection = connection]]
    /\ UNCHANGED <<clients, cache, backend, types, now>>

(* lines 103-123: session.get looks the request up in the cache *)
Send(i) ==
    /\ calls[i].pc = "session"
    /\ LET key == CacheKey("links",
                      RequestParams(calls[i].params,
                                    clients[calls[i].client].api_key))
       IN IF key \in DOMAIN cache /\ Fresh(cache[key])
          THEN calls' = [calls EXCEPT ![i].pc = "response",
                                      ![i].response = cache[key].response,
                                      ![i].from_cache = TRUE]
          ELSE calls' = [calls EXCEPT ![i].pc = "waiting"]
    /\ UNCHANGED <<clients, cache, backend, types, now>>

(* lines 112-123: the upstream answers; the cache keeps an allowed status *)
Receive(i, response) ==
    /\ calls[i].pc = "waiting"
    /\ calls' = [calls EXCEPT ![i].pc = "response",
                              ![i].response = response,
                              ![i].requests = @ + 1]
    /\ LET key == CacheKey("links",
                      RequestParams(calls[i].params,
                                    clients[calls[i].client].api_key))
       IN cache' = IF response.status \in AllowedCodes
                   THEN Put(cache, key, [response |-> response, created |-> now])
                   ELSE cache
    /\ UNCHANGED <<clients, backend, types, now>>

(* every connection of the table marked, not the selected one alone *)
MarkCooldownAll(connections, connection, api_timeout) ==
    [e \in DOMAIN connections |-> At(now + api_timeout)]

(* the timeout left out of the timestamp *)
MarkCooldownNow(connections, connection, api_timeout) ==
    [connections EXCEPT ![connection] = At(now)]

(* lines 134-138 *)
MarkCooldown(connections, connection, api_timeout) ==
    [connections EXCEPT ![connection] = At(now + api_timeout)]

(* a connection that answered without a rate limit gets its timestamp cleared *)
FinishClearsCooldown(i) ==
    /\ calls[i].pc = "response"
    /\ LET c == calls[i].client
           outcome == Outcome(calls[i].response, calls[i].params)
       IN /\ \E suspends \in BOOLEAN :
                 calls' = [calls EXCEPT ![i] =
                     IF suspends THEN [@ EXCEPT !.pc = "closing"]
                     ELSE [@ EXCEPT !.pc = "done", !.outcome = outcome]]
          /\ clients' =
                 IF outcome = TooManyRequests
                 THEN [clients EXCEPT ![c].connections =
                           MarkCooldown(@, calls[i].connection,
                                        clients[c].api_timeout)]
                 ELSE [clients EXCEPT
                           ![c].connections[calls[i].connection] = NoTime]
    /\ UNCHANGED <<cache, backend, types, now>>

(* a rate-limited call marks its connection and sends the request again *)
FinishRetries(i) ==
    /\ calls[i].pc = "response"
    /\ LET c == calls[i].client
           outcome == Outcome(calls[i].response, calls[i].params)
       IN IF outcome = TooManyRequests
          THEN /\ calls' = [calls EXCEPT ![i].pc = "waiting"]
               /\ clients' = [clients EXCEPT ![c].connections =
                                  MarkCooldown(@, calls[i].connection,
                                               clients[c].api_timeout)]
          ELSE /\ \E suspends \in BOOLEAN :
                      calls' = [calls EXCEPT ![i] =
                          IF suspends THEN [@ EXCEPT !.pc = "closing"]
                          ELSE [@ EXCEPT !.pc = "done", !.outcome = outcome]]
               /\ clients' = clients
    /\ UNCHANGED <<cache, backend, types, now>>

(* lines 124-180: parse, classify, mark the connection, raise or return. The
   raise or return leaves the `async with` blocks of lines 112 and 103, whose
   exits are awaited: either they return at once and the caller has the outcome
   in this step, or they suspend and the call is left closing, the table
   already written. *)
Finish(i) ==
    /\ calls[i].pc = "response"
    /\ LET c == calls[i].client
           outcome == Outcome(calls[i].response, calls[i].params)
       IN /\ \E suspends \in BOOLEAN :
                 calls' = [calls EXCEPT ![i] =
                     IF suspends THEN [@ EXCEPT !.pc = "closing"]
                     ELSE [@ EXCEPT !.pc = "done", !.outcome = outcome]]
          /\ clients' =
                 IF outcome = TooManyRequests
                 THEN [clients EXCEPT ![c].connections =
                           MarkCooldown(@, calls[i].connection,
                                        clients[c].api_timeout)]
                 ELSE clients
    /\ UNCHANGED <<cache, backend, types, now>>

(* lines 103-112: the suspended exits of the `async with` blocks resume and the
   raised exception or the returned APIResponse reaches the caller *)
Close(i) ==
    /\ calls[i].pc = "closing"
    /\ calls' = [calls EXCEPT
                    ![i].pc = "done",
                    ![i].outcome = Outcome(calls[i].response, calls[i].params)]
    /\ UNCHANGED <<clients, cache, backend, types, now>>

(* ------------------------------------------------------------------ *)
(* Public operations                                                   *)
(* ------------------------------------------------------------------ *)
(* str.upper() on the country codes of the model *)
Upper(s) == IF s = "de" THEN "DE" ELSE IF s = "us" THEN "US" ELSE s

StringifiedBool(b) == IF b THEN "true" ELSE "false"

(* lines 204-211 *)
LinksByUrl(i, c, url, user_country, song_if_single) ==
    MakeRequest(i, c, [userCountry |-> Upper(user_country), url |-> url,
                       songIfSingle |-> StringifiedBool(song_if_single)])

(* lines 237-246; platform and type are enumeration members, sent by name *)
LinksById(i, c, id, platform, type, user_country, song_if_single) ==
    MakeRequest(i, c, [id |-> id, userCountry |-> Upper(user_country),
                       platform |-> platform,
                       songIfSingle |-> StringifiedBool(song_if_single),
                       type |-> type])

(* the wall clock *)
Tick ==
    /\ now + TickSeconds <= MaxTime
    /\ now' = now + TickSeconds
    /\ UNCHANGED <<clients, calls, cache, backend, types>>

Init ==
    /\ clients = [c \in ClientIds |-> NewClient]
    /\ calls = [i \in CallIds |-> IdleCall]
    /\ cache = EmptyDict
    /\ backend \in FileBackend
    /\ types \in Types
    /\ now = 0

(* one step of the program and its environment, the inputs drawn from the
   given sets *)
Step(client_ids, call_ids, api_keys, timeouts, proxies, flags, responses) ==
    \/ \E c \in client_ids, api_key \in api_keys, api_timeout \in timeouts,
          proxy \in proxies, always_use_proxy \in BOOLEAN :
          Construct(c, api_key, api_timeout, proxy, always_use_proxy)
    \/ \E i \in call_ids, c \in client_ids, url \in Urls,
          user_country \in Countries, song_if_single \in flags :
          LinksByUrl(i, c, url, user_country, song_if_single)
    \/ \E i \in call_ids, c \in client_ids, id \in Ids,
          user_country \in Countries, song_if_single \in flags :
          LinksById(i, c, id, "SPOTIFY", "SONG", user_country, song_if_single)
    \/ \E i \in call_ids : Send(i)
    \/ \E i \in call_ids, response \in responses : Receive(i, response)
    \/ \E i \in call_ids : Finish(i)
    \/ \E i \in call_ids : Close(i)
    \/ Tick

(* one client behind a proxy, a sequence of calls, three kinds of answer *)
CommonResponses ==
    { [status |-> 200,
       body |-> [json |-> "object",
                 obj |-> [entityUniqueId |-> "ITUNES_SONG::2", pageUrl |-> "page",
                          entitiesByUniqueId |->
                              << Entity("ITUNES_SONG::2", "itunes", <<"appleMusic">>) >>,
                          linksByPlatform |->
                              << Link("appleMusic", "ITUNES_SONG::2") >>]]],
      [status |-> 429,
       body |-> [json |-> "object", obj |-> [code |-> "too_many_requests"]]],
      [status |-> 400,
       body |-> [json |-> "object",
                 obj |-> [code |-> "could_not_fetch_entity_data"]]] }

Next ==
    Step({1}, CallIds, {"k1"}, {1000}, {[t |-> "str", s |-> "p1"]}, {FALSE},
         CommonResponses)

Spec == Init /\ [][Next]_vars

(* one call of one client, over every configuration and every answer *)
NextAnswers ==
    Step({1}, {1}, ApiKeys, Timeouts, ProxyArgs, Flags, Responses)

SpecAnswers == Init /\ [][NextAnswers]_vars

(* two clients that share the default cache backend, each with its own key *)
NextKeys ==
    Step(ClientIds, {1, 2}, ApiKeys, {1000}, {[t |-> "none"]}, {FALSE},
         CommonResponses)

SpecKeys == Init /\ [][NextKeys]_vars

(* ------------------------------------------------------------------ *)
(* Properties                                                          *)
(* ------------------------------------------------------------------ *)
(* a cooldown timestamp t is in force at time u: set and not elapsed *)
InCooldown(cooldown, u) == cooldown # NoTime /\ \A t \in cooldown : u < t
(* available at time u: no timestamp, or one in the past *)
Available(cooldown, u) == ~InCooldown(cooldown, u)

ConnectionsOf(i) == clients[calls[i].client].connections

(* call i begins in this step *)
Begins(i) == calls[i].pc = "idle" /\ calls'[i].pc # "idle"
(* call i draws a connection in this step *)
Picks(i) == Begins(i) /\ calls'[i].connection # NoConnection

(* C1: the connection a dispatch picks is not in cooldown at the moment of
   the pick. *)
C1_PickedWasAvailable ==
    [][\A i \in CallIds :
          Picks(i) =>
              /\ calls'[i].connection \in DOMAIN clients[calls'[i].client].connections
              /\ Available(clients[calls'[i].client].connections[calls'[i].connection],
                           now)]_vars

(* a call that has just picked its connection while another connection of the
   client, marked before the pick, was still cooling down *)
C1_Witness ==
    \E i \in CallIds :
        /\ calls[i].pc = "session"
        /\ calls[i].started = now
        /\ \E e \in DOMAIN ConnectionsOf(i) \ {calls[i].connection} :
               \E t \in ConnectionsOf(i)[e] :
                   /\ t - clients[calls[i].client].api_timeout < calls[i].started
                   /\ calls[i].started < t

(* C2: once now >= cooldownUntil a connection is selectable again: a dispatch
   that starts while some connection's cooldown is unset or has elapsed does not
   fail for lack of a connection. *)
C2_SelectableAfterCooldown ==
    [][\A i \in CallIds :
          (/\ Begins(i)
           /\ \E e \in DOMAIN clients[calls'[i].client].connections :
                  Available(clients[calls'[i].client].connections[e], now))
          => calls'[i].pc = "session"]_vars

(* C3: when every connection is in cooldown as a dispatch starts, it fails with
   TooManyRequests, sends nothing, does not read or write the cache, and changes
   no cooldown timestamp. *)
C3_FailFast ==
    [][\A i \in CallIds :
          (/\ Begins(i)
           /\ \A e \in DOMAIN clients[calls'[i].client].connections :
                  InCooldown(clients[calls'[i].client].connections[e], now))
          => /\ calls'[i].pc = "done"
             /\ calls'[i].outcome = TooManyRequests
             /\ calls'[i].requests = 0
             /\ ~calls'[i].from_cache
             /\ calls'[i].connection = NoConnection
             /\ cache' = cache
             /\ clients' = clients]_vars

(* a call that ended without a connection while every connection of its client
   was cooling down when it began *)
C3_Witness ==
    \E i \in CallIds :
        /\ calls[i].pc = "done"
        /\ calls[i].connection = NoConnection
        /\ calls[i].outcome = TooManyRequests
        /\ calls[i].started = now
        /\ \A e \in DOMAIN ConnectionsOf(i) :
               InCooldown(ConnectionsOf(i)[e], calls[i].started)

(* lines 124-180 run for call i in this step *)
Finishes(i) ==
    calls[i].pc = "response" /\ calls'[i].pc \in {"closing", "done"}
(* call i, which had drawn a connection, ends in this step *)
Ends(i) ==
    calls[i].pc \in {"response", "closing"} /\ calls'[i].pc = "done"

(* the body is a JSON object whose code field is the given string *)
HasCode(body, code) ==
    /\ body.json = "object"
    /\ "code" \in DOMAIN body.obj
    /\ body.obj["code"] = code

(* C4 as stated: a body {code: "too_many_requests"}, whatever the HTTP status,
   puts the selected connection into cooldown until now + api_timeout and the
   call fails with TooManyRequests. *)
C4_RateLimitAnyStatus ==
    [][\A i \in CallIds :
          /\ (Finishes(i) /\ HasCode(calls[i].response.body, "too_many_requests"))
             => clients'[calls[i].client].connections[calls[i].connection]
                    = At(now + clients[calls[i].client].api_timeout)
          /\ (Ends(i) /\ HasCode(calls[i].response.body, "too_many_requests"))
             => calls'[i].outcome = TooManyRequests]_vars

(* C4, amended: a body {code: "too_many_requests"} with any HTTP status other
   than 200 puts the selected connection into cooldown until now + api_timeout
   and the call fails with TooManyRequests. *)
C4_RateLimitNon200 ==
    [][\A i \in CallIds :
          /\ (/\ Finishes(i)
              /\ HasCode(calls[i].response.body, "too_many_requests")
              /\ calls[i].response.status # 200)
             => clients'[calls[i].client].connections[calls[i].connection]
                    = At(now + clients[calls[i].client].api_timeout)
          /\ (/\ Ends(i)
              /\ HasCode(calls[i].response.body, "too_many_requests")
              /\ calls[i].response.status # 200)
             => calls'[i].outcome = TooManyRequests]_vars

(* a call answered with a non-200 too_many_requests has ended, after the clock
   had moved, and its connection carries a timestamp *)
C4_Witness ==
    \E i \in CallIds :
        /\ calls[i].pc = "done"
        /\ calls[i].response.status # 200
        /\ HasCode(calls[i].response.body, "too_many_requests")
        /\ calls[i].outcome = TooManyRequests
        /\ calls[i].started < now
        /\ ConnectionsOf(i)[calls[i].connection]
               = At(now + clients[calls[i].client].api_timeout)

(* the constructor was given no proxy: None or an empty list *)
ZeroProxies(proxy) ==
    proxy.t = "none" \/ (proxy.t = "list" /\ Len(proxy.l) = 0)

(* C6: with zero proxies and always_use_proxy the constructor fails; with any
   other configuration it succeeds with a non-empty connection table in which
   no connection carries a cooldown timestamp. *)
C6_Construction ==
    [][\A c \in ClientIds :
          (clients[c].state = "new" /\ clients'[c].state # "new")
          => IF ZeroProxies(clients'[c].args.proxy)
                /\ clients'[c].args.always_use_proxy
             THEN clients'[c].state = "failed"
             ELSE /\ clients'[c].state = "ready"
                  /\ DOMAIN clients'[c].connections # {}
                  /\ \A e \in DOMAIN clients'[c].connections :
                         clients'[c].connections[e] = NoTime]_vars

(* a constructor call with an empty proxy list and always_use_proxy has failed *)
C6_Witness ==
    \E c \in ClientIds :
        /\ clients[c].state = "failed"
        /\ clients[c].args.proxy = [t |-> "list", l |-> << >>]
        /\ clients[c].args.always_use_proxy

(* C7: a body {code: "could_not_fetch_entity_data"} with a non-200 status makes
   the call fail with EntityNotFound. *)
C7_EntityNotFound ==
    \A i \in CallIds :
        (/\ calls[i].pc = "done"
         /\ HasCode(calls[i].response.body, "could_not_fetch_entity_data")
         /\ calls[i].response.status # 200)
        => calls[i].outcome = EntityNotFound

(* a call answered 400 could_not_fetch_entity_data has ended with EntityNotFound *)
C7_Witness ==
    \E i \in CallIds :
        /\ calls[i].pc = "done"
        /\ HasCode(calls[i].response.body, "could_not_fetch_entity_data")
        /\ calls[i].response.status = 400
        /\ calls[i].outcome = EntityNotFound

(* the body is JSON text that is not empty: a non-empty object or array *)
NonEmptyJson(body) ==
    \/ body.json = "object" /\ DOMAIN body.obj # {}
    \/ body.json = "array" /\ body.len > 0

(* the body is a JSON object with at least one field *)
NonEmptyObject(body) == body.json = "object" /\ DOMAIN body.obj # {}

(* C8: every answer with status 200 and a non-empty JSON body (here: a JSON
   object, with or without a code field or the two maps) ends in an
   APIResponse, and the call leaves every cooldown timestamp as it was. *)
C8_SuccessPath ==
    [][\A i \in CallIds :
          /\ (/\ Finishes(i)
              /\ calls[i].response.status = 200
              /\ NonEmptyObject(calls[i].response.body))
             => clients' = clients
          /\ (/\ Ends(i)
              /\ calls[i].response.status = 200
              /\ NonEmptyObject(calls[i].response.body))
             => calls'[i].outcome.kind = "APIResponse"]_vars

(* C9: an answer that is not (200 with a non-empty body) and whose code is
   absent or is neither too_many_requests nor could_not_fetch_entity_data ends
   in APIException with the answer's status and code; a body that is not JSON
   counts as an empty object. *)
C9_APIException ==
    \A i \in CallIds :
        (/\ calls[i].pc = "done"
         /\ calls[i].connection # NoConnection
         /\ ~(calls[i].response.status = 200
              /\ NonEmptyJson(calls[i].response.body))
         /\ ~HasCode(calls[i].response.body, "too_many_requests")
         /\ ~HasCode(calls[i].response.body, "could_not_fetch_entity_data"))
        => calls[i].outcome =
               APIException(calls[i].response.status,
                            IF calls[i].response.body.json = "object"
                               /\ "code" \in DOMAIN calls[i].response.body.obj
                            THEN calls[i].response.body.obj["code"]
                            ELSE None)

(* calls i and j are identical, i has ended before j began, both have ended and
   the TTL that began when i started has not run out *)
IdenticalWithinTtl(i, j) ==
    /\ calls[i].pc = "done"
    /\ calls[j].pc = "done"
    /\ i \in calls[j].prior
    /\ calls[i].params = calls[j].params
    /\ now <= calls[i].started + ExpireAfter

(* C5: two identical calls within the cache TTL, of one client or of two
   clients with any API keys, the first answered upstream with HTTP 200,
   produce identical results, and the second sends no request. *)
C5_IdenticalCalls ==
    \A i, j \in CallIds :
        (/\ IdenticalWithinTtl(i, j)
         /\ calls[i].requests = 1
         /\ calls[i].response.status = 200)
        => /\ calls[j].outcome = calls[i].outcome
           /\ calls[j].requests = 0

ApiKeyOf(i) == clients[calls[i].client].api_key

(* C10: two calls that differ only in the configured API key address the same
   cache entry: the HTTP-200 answer cached for one is served to the other
   within the TTL. *)
C10_KeyExcluded ==
    \A i, j \in CallIds :
        (/\ IdenticalWithinTtl(i, j)
         /\ ApiKeyOf(i) # ApiKeyOf(j)
         /\ calls[i].requests = 1
         /\ calls[i].response.status = 200)
        => /\ calls[j].from_cache
           /\ calls[j].response = calls[i].response

(* C11: with always_use_proxy the direct path is not in the table and no call
   ever runs over it; without always_use_proxy the direct path is in the table. *)
C11_DirectPath ==
    \A c \in ClientIds :
        clients[c].state = "ready"
        => /\ (None \in DOMAIN clients[c].connections)
                  <=> ~clients[c].args.always_use_proxy
           /\ clients[c].args.always_use_proxy
                  => \A i \in CallIds :
                         calls[i].client = c => calls[i].connection # None

(* a client built without always_use_proxy has sent a request over the direct
   path *)
C11_Witness ==
    \E i \in CallIds :
        /\ calls[i].pc = "done"
        /\ calls[i].connection = None
        /\ calls[i].requests = 1
        /\ ~clients[calls[i].client].args.always_use_proxy
        /\ clients[calls[i].client].args.proxy = [t |-> "str", s |-> "p1"]

(* call i has returned an APIResponse for a JSON object *)
Returned(i) ==
    /\ calls[i].pc = "done"
    /\ calls[i].outcome.kind = "APIResponse"

BodyOf(i) == calls[i].response.body.obj

(* the elements of a sequence *)
Range(seq) == {seq[k] : k \in 1..Len(seq)}

(* C12: with string-valued enumerations, of the entities of
   entitiesByUniqueId those with a recognized apiProvider are in the result and
   those with any other apiProvider are not. *)
C12_EntitiesFiltered ==
    \A i \in CallIds :
        (Returned(i) /\ types.enum = "str")
        => LET result == {e.id : e \in Range(calls[i].outcome.entities_by_unique_id)}
           IN \A entity \in Range(BodyOf(i)["entitiesByUniqueId"]) :
                  (entity.id \in result)
                      <=> (entity.apiProvider.str \in APIProvider)

(* a result that kept the spotify entity and dropped the unknown_provider one *)
C12_Witness ==
    \E i \in CallIds :
        /\ Returned(i)
        /\ \E entity \in Range(BodyOf(i)["entitiesByUniqueId"]) :
               entity.apiProvider.str = "unknown_provider"
        /\ {e.id : e \in Range(calls[i].outcome.entities_by_unique_id)}
               = {"SPOTIFY_SONG::1"}

(* C13: a links-by-URL call returns the body's entityUniqueId, and, with
   string-valued enumerations, its links_by_platform holds exactly the
   linksByPlatform entries whose key is a recognized platform name. *)
C13_LinksByUrlResult ==
    \A i \in CallIds :
        (Returned(i) /\ "url" \in DOMAIN calls[i].params)
        => /\ calls[i].outcome.entity_unique_id = BodyOf(i)["entityUniqueId"]
           /\ types.enum = "str"
               => ({l.name : l \in Range(calls[i].outcome.links_by_platform)}
                   = {l.name : l \in Range(BodyOf(i)["linksByPlatform"])}
                         \cap PlatformName)
           /\ \A l \in Range(calls[i].outcome.links_by_platform) :
                  \E u \in Range(BodyOf(i)["linksByPlatform"]) :
                      u.name = l.name /\ u.entityUniqueId = l.entity_unique_id

(* a links-by-URL result that kept the spotify link and dropped the myspace one *)
C13_Witness ==
    \E i \in CallIds :
        /\ Returned(i)
        /\ "url" \in DOMAIN calls[i].params
        /\ calls[i].outcome.entity_unique_id = "SPOTIFY_SONG::1"
        /\ {l.name : l \in Range(BodyOf(i)["linksByPlatform"])}
               = {"spotify", "myspace"}
        /\ {l.name : l \in Range(calls[i].outcome.links_by_platform)}
               = {"spotify"}

(* the recognized platform names of a list, in the list's order *)
Recognized(platforms) ==
    LET Keep(platform_name) == platform_name \in PlatformName
    IN SelectSeq(platforms, Keep)

(* C14: every entity kept in the result carries the upstream platforms list
   of its entity restricted to the recognized platform names, in the list's
   order. *)
C14_PlatformsFiltered ==
    \A i \in CallIds :
        Returned(i)
        => \A e \in Range(calls[i].outcome.entities_by_unique_id) :
               \A entity \in Range(BodyOf(i)["entitiesByUniqueId"]) :
                   entity.id = e.id
                   => e.platforms = Recognized(entity.platforms.list)

(* C15: the keys of a client's connection table never change; a step changes a
   cooldown timestamp only when a call handles an upstream non-200
   too_many_requests answer, and then only that of the call's connection; a
   call that ends with any outcome but TooManyRequests had no such answer. *)
C15_Frame ==
    [][\A c \in ClientIds :
          clients[c].state = "ready"
          => /\ clients'[c].state = "ready"
             /\ \A i \in CallIds :
                    (/\ Ends(i)
                     /\ calls[i].client = c
                     /\ calls'[i].outcome # TooManyRequests)
                    => ~(/\ HasCode(calls[i].response.body, "too_many_requests")
                         /\ calls[i].response.status # 200)
             /\ DOMAIN clients'[c].connections = DOMAIN clients[c].connections
             /\ clients'[c].connections # clients[c].connections
                    => \E i \in CallIds :
                           /\ Finishes(i)
                           /\ calls[i].client = c
                           /\ calls[i].requests = 1
                           /\ HasCode(calls[i].response.body, "too_many_requests")
                           /\ calls[i].response.status # 200
                           /\ \A e \in DOMAIN clients[c].connections
                                      \ {calls[i].connection} :
                                  clients'[c].connections[e]
                                      = clients[c].connections[e]]_vars

(* a rate-limited call has marked its own connection and left another
   connection of the client unmarked *)
C15_Witness ==
    \E i \in CallIds :
        /\ calls[i].pc = "done"
        /\ calls[i].requests = 1
        /\ calls[i].outcome = TooManyRequests
        /\ ConnectionsOf(i)[calls[i].connection] # NoTime
        /\ \E e \in DOMAIN ConnectionsOf(i) : ConnectionsOf(i)[e] = NoTime

(* C16: under any interleaving a cooldown timestamp, once set, is never cleared
   and never moved earlier, and no call picks the connection before it. *)
C16_MarkNotLost ==
    [][\A c \in ClientIds :
          \A e \in DOMAIN clients[c].connections :
              clients[c].connections[e] # NoTime
              => /\ clients'[c].connections[e] # NoTime
                 /\ \A t \in clients[c].connections[e] :
                        \A u \in clients'[c].connections[e] : t <= u
                 /\ \A i \in CallIds :
                        (Picks(i) /\ calls'[i].client = c
                         /\ \E t \in clients[c].connections[e] : now < t)
                        => calls'[i].connection # e]_vars

(* a call has ended rate-limited on a connection while a second call, begun
   before that, holds a 200 answer on the same connection and is about to end *)
C16_Witness ==
    \E i, j \in CallIds :
        /\ i # j
        /\ calls[i].pc = "done"
        /\ calls[i].requests = 1
        /\ calls[i].outcome = TooManyRequests
        /\ calls[j].pc = "response"
        /\ calls[j].response.status = 200
        /\ calls[j].client = calls[i].client
        /\ calls[j].connection = calls[i].connection
        /\ ConnectionsOf(i)[calls[i].connection] # NoTime

(* C17: a call sends at most one request, keeps the connection it picked, ends
   at once when no connection is unmarked, after the step that handles its
   answer does nothing but end, and once ended keeps its one outcome. *)
C17_OneRequestOneOutcome ==
    [][\A i \in CallIds :
          /\ calls'[i].requests <= 1
          /\ (calls'[i].pc = "done") <=> (calls'[i].outcome # NoOutcome)
          /\ calls[i].pc = "done" => calls'[i] = calls[i]
          /\ calls[i].connection # NoConnection
                 => calls'[i].connection = calls[i].connection
          /\ (Begins(i) /\ calls'[i].connection = NoConnection)
                 => calls'[i].pc = "done"
          /\ (calls[i].pc = "response" /\ calls'[i] # calls[i])
                 => calls'[i].pc \in {"closing", "done"}
          /\ (calls[i].pc = "closing" /\ calls'[i] # calls[i])
                 => /\ calls'[i].pc = "done"
                    /\ calls'[i].requests = calls[i].requests
                    /\ clients' = clients]_vars

(* a call ended rate-limited after its one request although two other
   connections of its client were unmarked *)
C17_Witness ==
    \E i \in CallIds :
        /\ calls[i].pc = "done"
        /\ calls[i].requests = 1
        /\ calls[i].outcome = TooManyRequests
        /\ Cardinality({e \in DOMAIN ConnectionsOf(i) :
                            ConnectionsOf(i)[e] = NoTime}) = 2

(* C18: only HTTP-200 answers are in the cache; after a call that failed on a
   non-200 answer, an identical later call that starts while some connection is
   available sends a request of its own; a call served from the cache does not
   end rate-limited. *)
C18_NoFailureReplayed ==
    /\ \A k \in DOMAIN cache : cache[k].response.status = 200
    /\ \A i \in CallIds :
           (calls[i].pc = "done" /\ calls[i].from_cache)
           => calls[i].outcome # TooManyRequests
    /\ \A i, j \in CallIds :
           (/\ calls[i].pc = "done"
            /\ calls[j].pc = "done"
            /\ i \in calls[j].prior
            /\ calls[i].params = calls[j].params
            /\ calls[i].requests = 1
            /\ calls[i].response.status # 200
            /\ \E e \in DOMAIN ConnectionsOf(j) :
                   Available(ConnectionsOf(j)[e], calls[j].started))
           => calls[j].requests = 1

(* the upper-case form of the country codes callers pass *)
UpperCase == [de |-> "DE"]

(* C19: the result's user country is the body's userCountry when it has one,
   else the userCountry parameter that was sent, else "US"; the parameter sent
   is the caller's country in upper case. *)
C19_UserCountry ==
    \A i \in CallIds :
        /\ calls[i].pc # "idle"
               => \E user_country \in Countries :
                      calls[i].params["userCountry"] = UpperCase[user_country]
        /\ Returned(i)
               => calls[i].outcome.user_country =
                      IF "userCountry" \in DOMAIN BodyOf(i)
                      THEN BodyOf(i)["userCountry"]
                      ELSE IF "userCountry" \in DOMAIN calls[i].params
                      THEN calls[i].params["userCountry"]
                      ELSE "US"

(* a result whose body named the country US while the caller had sent DE *)
C19_Witness ==
    \E i \in CallIds :
        /\ Returned(i)
        /\ "userCountry" \in DOMAIN BodyOf(i)
        /\ calls[i].params["userCountry"] = "DE"
        /\ calls[i].outcome.user_country = "US"

====
